---- MODULE Spec2Model ----
(***************************************************************************)
(* Model of hack_app.py: the MarketAux news fetcher                        *)
(* (fetch_marketaux_news), the content analyzer (analyze_content), the    *)
(* two Flask routes that compose them (home, analyze_news_route) and what  *)
(* the two page templates show of an article's analysis.                   *)
(*                                                                         *)
(* Text.  A Python str is modelled as a sequence of tokens; a token is a   *)
(* TLA+ string standing for a run of characters.  Concatenation and        *)
(* f-strings are \o, the empty str is <<>>, "sub in s" is                  *)
(* ContainsStr(s, sub).  A response body's text is written one character   *)
(* per token, so that slicing it counts characters.                        *)
(*                                                                         *)
(* JSON / Python values are tagged records: None, str, int, list, dict.    *)
(***************************************************************************)
EXTENDS Integers, Sequences, FiniteSets, TLC

VARIABLES
    MARKETAUX_API_KEY,  \* the module-level credential (a str, maybe empty)
    models_loaded,      \* the module-level flag set by the model loading
    req,                \* the call being served: route and its arguments
    net,                \* what the transport did on requests.get, if called
    transport_calls,    \* the params of every requests.get of this call
    news_result,        \* what fetch_marketaux_news returned, if called
    analyze_calls,      \* the text of every analyze_content call
    analyze_returns,    \* per analyze_content call: the pipelines' behaviour
                        \* and the dict returned
    out                 \* what the call handed to the presentation layer

vars == <<MARKETAUX_API_KEY, models_loaded, req, net, transport_calls,
          news_result, analyze_calls, analyze_returns, out>>

-----------------------------------------------------------------------------
(* Bounds of the model *)

MaxRecords == 2     \* longest upstream data list
MaxPage == 3        \* largest page number a caller supplies

-----------------------------------------------------------------------------
(* Python values *)

PyNone == [t |-> "null"]
PyStr(s) == [t |-> "str", s |-> s]
PyInt(n) == [t |-> "int", n |-> n]
PyList(items) == [t |-> "list", items |-> items]
PyDict(f) == [t |-> "dict", f |-> f]

\* bool(v): None, "", 0, [] are falsy
Truthy(v) ==
    CASE v.t = "null" -> FALSE
      [] v.t = "str"  -> Len(v.s) > 0
      [] v.t = "int"  -> v.n # 0
      [] v.t = "list" -> Len(v.items) > 0
      [] OTHER        -> TRUE


\* a or b
PyOr(a, b) == IF Truthy(a) THEN a ELSE b

\* d.get(key, default)
DictGet(d, key, default) == IF key \in DOMAIN d.f THEN d.f[key] ELSE default

DigitChar(d) ==
    CASE d = 0 -> "0" [] d = 1 -> "1" [] d = 2 -> "2" [] d = 3 -> "3"
      [] d = 4 -> "4" [] d = 5 -> "5" [] d = 6 -> "6" [] d = 7 -> "7"
      [] d = 8 -> "8" [] d = 9 -> "9"

RECURSIVE NatDigits(_)
NatDigits(n) ==
    IF n < 10 THEN <<DigitChar(n)>>
    ELSE NatDigits(n \div 10) \o <<DigitChar(n % 10)>>

\* str(n) of an int
IntStr(n) == IF n < 0 THEN <<"-">> \o NatDigits(-n) ELSE NatDigits(n)

\* str(v) of a scalar, as an f-string or str() renders it
StrOf(v) ==
    CASE v.t = "str"  -> v.s
      [] v.t = "int"  -> IntStr(v.n)
      [] v.t = "null" -> <<"None">>

Min(a, b) == IF a < b THEN a ELSE b

\* s[:n]
Prefix(s, n) == SubSeq(s, 1, Min(n, Len(s)))

RECURSIVE LStrip(_)
LStrip(s) == IF Len(s) > 0 /\ Head(s) = " " THEN LStrip(Tail(s)) ELSE s

RECURSIVE RStrip(_)
RStrip(s) ==
    IF Len(s) > 0 /\ s[Len(s)] = " " THEN RStrip(SubSeq(s, 1, Len(s) - 1)) ELSE s

\* s.strip()
Strip(s) == RStrip(LStrip(s))

-----------------------------------------------------------------------------
(* Dates: datetime.fromisoformat and strftime('%Y-%m-%d %H:%M').           *)
(* An ISO string is date [sep hh:mm [:ss] [offset]]; each part is a token. *)

IsoDates == {"2024-01-02"}
IsoSeparators == {"T", " "}
IsoTimes == {"10:30"}
IsoSeconds == {":45"}
IsoOffsets == {"+00:00", "+05:30"}

\* published_at.replace('Z', '+00:00')
ReplaceZ(s) == [i \in 1..Len(s) |-> IF s[i] = "Z" THEN "+00:00" ELSE s[i]]

IsoTail(s) ==
    \/ Len(s) = 0
    \/ Len(s) = 1 /\ s[1] \in IsoSeconds \cup IsoOffsets
    \/ Len(s) = 2 /\ s[1] \in IsoSeconds /\ s[2] \in IsoOffsets

\* fromisoformat(s) does not raise ValueError
IsoParses(s) ==
    \/ Len(s) = 1 /\ s[1] \in IsoDates
    \/ /\ Len(s) >= 3
       /\ s[1] \in IsoDates
       /\ s[2] \in IsoSeparators
       /\ s[3] \in IsoTimes
       /\ IsoTail(SubSeq(s, 4, Len(s)))

\* fromisoformat(s): the datetime's date and hour:minute (midnight if no time)
FromIsoFormat(s) ==
    [date |-> s[1], hm |-> IF Len(s) >= 3 THEN s[3] ELSE "00:00"]

\* dt_obj.strftime('%Y-%m-%d %H:%M')
StrfTime(dt) == <<dt.date, " ", dt.hm>>

-----------------------------------------------------------------------------
(* fetch_marketaux_news: normalization of one raw record *)

\* type(v).__name__
TypeName(v) ==
    CASE v.t = "null" -> "NoneType"
      [] v.t = "str"  -> "str"
      [] v.t = "int"  -> "int"
      [] v.t = "list" -> "list"
      [] v.t = "dict" -> "dict"

\* content = description or snippet or title(default ''); str() if not a str
ContentForAnalysis(article) ==
    LET content == PyOr(PyOr(DictGet(article, "description", PyNone),
                             DictGet(article, "snippet", PyNone)),
                        DictGet(article, "title", PyStr(<<>>)))
    IN  IF content.t # "str"
        THEN (IF content.t # "null" THEN StrOf(content) ELSE <<>>)
        ELSE content.s

\* UnparsedDate falling back to the string fromisoformat was given
UnparsedDateReplaced(published_at) == ReplaceZ(published_at.s)

\* except ValueError: published_dt_str = published_at
UnparsedDate(published_at) == published_at.s

\* published_dt_str, for a record whose published_at (if truthy) is a str
PublishedDtStr(article) ==
    LET published_at == DictGet(article, "published_at", PyNone)
    IN  IF ~Truthy(published_at) THEN <<"N/A">>
        ELSE IF IsoParses(ReplaceZ(published_at.s))
             THEN StrfTime(FromIsoFormat(ReplaceZ(published_at.s)))
             ELSE UnparsedDate(published_at)

\* The text of the exception the loop body raises on this record, <<>> if
\* none: a record that is no dict has no .get; a truthy published_at that
\* is no str has no .replace (AttributeError, which the inner
\* "except ValueError" does not catch).
RecordException(article) ==
    IF article.t # "dict"
    THEN <<"'", TypeName(article), "' object has no attribute 'get'">>
    ELSE LET published_at == DictGet(article, "published_at", PyNone)
         IN  IF Truthy(published_at) /\ published_at.t # "str"
             THEN <<"'", TypeName(published_at),
                    "' object has no attribute 'replace'">>
             ELSE <<>>

\* the dict appended to processed_articles
ProcessedArticle(article) ==
    [title                |-> DictGet(article, "title", PyStr(<<"No Title">>)),
     link                 |-> DictGet(article, "url", PyStr(<<"#">>)),
     source               |-> DictGet(article, "source", PyStr(<<"Unknown Source">>)),
     published_utc        |-> PublishedDtStr(article),
     content_for_analysis |-> ContentForAnalysis(article)]

-----------------------------------------------------------------------------
(* fetch_marketaux_news: the request and the classification of its outcome *)

NewsError(msg) == [error |-> msg]

IsError(result) == "error" \in DOMAIN result

NotJson == [t |-> "notjson"]

EmptyDict == PyDict(<<>>)

\* str(e) of the exception requests.get raises.  urllib3's MaxRetryError
\* quotes the requested URL, query string included; a read timeout does not.
TransportExceptionText(kind, params) ==
    IF kind = "ConnectionError"
    THEN <<"HTTPSConnectionPool(host='api.marketaux.com', port=443): ",
           "Max retries exceeded with url: /v1/news/all?api_token=">>
         \o params.api_token \o <<"&search=">> \o params.search
         \o <<"&language=en&limit=">> \o IntStr(params.limit)
         \o <<"&page=">> \o IntStr(params.page) \o <<"&sort=published_on">>
    ELSE <<"HTTPSConnectionPool(host='api.marketaux.com', port=443): ",
           "Read timed out. (read timeout=15)">>

\* the upstream's own error object on a response that passed raise_for_status
ApiErrorMessage(error_details) ==
    <<"MarketAux News API Error (">>
    \o StrOf(DictGet(error_details, "code", PyStr(<<"N/A">>)))
    \o <<"): ">>
    \o StrOf(DictGet(error_details, "message",
                     PyStr(<<"Unknown API error from MarketAux">>)))

\* except requests.exceptions.HTTPError: error_msg
HttpErrorMsg(status, body) ==
    LET fallback == <<"Status ">> \o IntStr(status) \o <<", Body: ">>
                    \o Prefix(body.text, 200)
    IN  IF body.json.t # "dict" THEN fallback
        ELSE LET error_details == DictGet(body.json, "error", EmptyDict)
             IN  IF error_details.t # "dict" THEN fallback
                 ELSE StrOf(DictGet(error_details, "message",
                                    PyStr(<<"Status ">> \o IntStr(status))))

UnexpectedError(text) == NewsError(<<"An unexpected error occurred: ">> \o text)

FirstBad(raw_articles) ==
    LET bad == {i \in 1..Len(raw_articles) : RecordException(raw_articles[i]) # <<>>}
    IN  IF bad = {} THEN 0 ELSE CHOOSE i \in bad : \A j \in bad : i <= j

\* ProcessArticles with processed_articles.insert(0, ...) in place of append
ProcessArticlesNewestLast(raw_articles) ==
    IF FirstBad(raw_articles) # 0
    THEN UnexpectedError(RecordException(raw_articles[FirstBad(raw_articles)]))
    ELSE [articles |-> [i \in 1..Len(raw_articles) |->
                            ProcessedArticle(raw_articles[Len(raw_articles) + 1 - i])]]

\* the for loop over raw_articles: the first exception leaves the loop and
\* reaches "except Exception"
ProcessArticles(raw_articles) ==
    IF FirstBad(raw_articles) # 0
    THEN UnexpectedError(RecordException(raw_articles[FirstBad(raw_articles)]))
    ELSE [articles |-> [i \in 1..Len(raw_articles) |->
                            ProcessedArticle(raw_articles[i])]]

\* the body of the try block after a response that passed raise_for_status
OnJson(data) ==
    CASE data.t = "dict" ->
            IF "data" \in DOMAIN data.f /\ data.f.data.t = "list"
            THEN ProcessArticles(data.f.data.items)
            ELSE IF "error" \in DOMAIN data.f /\ data.f.error.t = "dict"
            THEN NewsError(ApiErrorMessage(data.f.error))
            ELSE NewsError(<<"Unexpected response format received from MarketAux.">>)
      [] data.t = "list" ->
            IF \E i \in 1..Len(data.items) : data.items[i] = PyStr(<<"data">>)
            THEN UnexpectedError(<<"list indices must be integers or slices, not str">>)
            ELSE NewsError(<<"Unexpected response format received from MarketAux.">>)
      [] OTHER ->
            UnexpectedError(<<"argument of type '", TypeName(data), "' is not iterable">>)

JsonDecodeText == <<"Expecting value: line 1 column 1 (char 0)">>

\* everything from requests.get on: what the function returns
AfterGet(params, n) ==
    IF n.kind # "response"
    THEN NewsError(<<"Network or API request error: ">>
                   \o TransportExceptionText(n.kind, params))
    ELSE IF n.status >= 400
    THEN NewsError(<<"HTTP error connecting to MarketAux: ">>
                   \o HttpErrorMsg(n.status, n.body))
    ELSE IF n.body.json = NotJson
    THEN (IF n.json_error_is_request_exception
          THEN NewsError(<<"Network or API request error: ">> \o JsonDecodeText)
          ELSE UnexpectedError(JsonDecodeText))
    ELSE OnJson(n.body.json)

\* TransportReached with "is not None" in place of the truthiness test
TransportReachedUnlessNone(key) == key.t = "str"

\* requests.get is reached only with a truthy credential
TransportReached(key) == Truthy(key)

\* fetch_marketaux_news(query, page, articles_per_page): the returned dict
\* and the params of the requests.get calls it made
fetch_marketaux_news(query, page, articles_per_page, key, n) ==
    IF ~TransportReached(key)
    THEN [ret  |-> NewsError(<<"Server configuration error: Missing MarketAux API Key.">>),
          gets |-> <<>>]
    ELSE LET params == [api_token |-> key.s,
                        search    |-> Strip(query),
                        language  |-> "en",
                        limit     |-> articles_per_page,
                        page      |-> page,
                        sort      |-> "published_on"]
         IN  [ret |-> AfterGet(params, n), gets |-> <<params>>]

-----------------------------------------------------------------------------
(* analyze_content.  ml is what the two pipelines do on this call: whether *)
(* each raises, and the label the sentiment pipeline returns.              *)

\* summarizer(tokenizer.decode(tokenizer(text, max_length=512, ...)))
Summarizer(text) == <<"summary_text(">> \o Prefix(text, 512) \o <<")">>

\* analyze_content with both stages in one try block: a summarizer failure
\* skips the sentiment stage
analyze_content_one_try(text, loaded, ml) ==
    IF ~loaded THEN [error |-> <<"ML models not available.">>]
    ELSE IF Len(text) = 0
    THEN [summary   |-> <<"No content provided for analysis.">>,
          sentiment |-> <<"N/A">>]
    ELSE IF ml.summary_raises
    THEN [summary   |-> <<"Error generating summary.">>,
          sentiment |-> <<"Error analyzing sentiment.">>]
    ELSE [summary   |-> Summarizer(text),
          sentiment |-> IF ml.sentiment_raises
                        THEN <<"Error analyzing sentiment.">>
                        ELSE <<ml.label>>]

analyze_content(text, loaded, ml) ==
    IF ~loaded THEN [error |-> <<"ML models not available.">>]
    ELSE IF Len(text) = 0
    THEN [summary   |-> <<"No content provided for analysis.">>,
          sentiment |-> <<"N/A">>]
    ELSE [summary   |-> IF ml.summary_raises
                        THEN <<"Error generating summary.">>
                        ELSE Summarizer(text),
          sentiment |-> IF ml.sentiment_raises
                        THEN <<"Error analyzing sentiment.">>
                        ELSE <<ml.label>>]

-----------------------------------------------------------------------------
(* The routes *)

Undefined == [t |-> "undefined"]    \* a template variable that is not passed

AbsentArg == [k |-> "absent"]
TextArg == [k |-> "text"]           \* a value int() rejects with ValueError
IntArg(n) == [k |-> "int", n |-> n] \* the numeral of n

\* int(value), with the default 1 when the argument is absent and when
\* int() raises ValueError
ArgAsInt(page_arg) == IF page_arg.k = "int" THEN page_arg.n ELSE 1

\* ClampPage with the comparison off by one
ClampPageBelowZero(current_page) == IF current_page < 0 THEN 1 ELSE current_page

\* if current_page < 1: current_page = 1
ClampPage(current_page) == IF current_page < 1 THEN 1 ELSE current_page

\* home: request.args.get('page', 1, type=int), clamped
HomePage(page_arg) == ClampPage(ArgAsInt(page_arg))

\* analyze_news_route: int(request.form.get('page', 1)), clamped
AnalyzePage(page_arg) == ClampPage(ArgAsInt(page_arg))

HomeQuery == <<"market news OR finance OR economy">>

WithAnalysis(article, analysis) ==
    [title                |-> article.title,
     link                 |-> article.link,
     source               |-> article.source,
     published_utc        |-> article.published_utc,
     content_for_analysis |-> article.content_for_analysis,
     analysis             |-> analysis]

\* the loop of both routes over the fetched articles, models loaded
AnalyzeArticles(articles, loaded, mls, no_content) ==
    [i \in 1..Len(articles) |->
        WithAnalysis(articles[i],
            IF Len(articles[i].content_for_analysis) > 0
            THEN analyze_content(articles[i].content_for_analysis, loaded, mls[i])
            ELSE [error |-> no_content])]

\* the texts analyze_content was called with by that loop, in call order
AnalyzedTexts(articles) ==
    SelectSeq([i \in 1..Len(articles) |-> articles[i].content_for_analysis],
              LAMBDA text : Len(text) > 0)

\* the calls of that loop, in call order: the text, what the pipelines did
\* and what analyze_content returned
AnalyzedCalls(articles, loaded, mls) ==
    SelectSeq([i \in 1..Len(articles) |->
                  [text |-> articles[i].content_for_analysis,
                   ml   |-> mls[i],
                   ret  |-> analyze_content(articles[i].content_for_analysis,
                                            loaded, mls[i])]],
              LAMBDA call : Len(call.text) > 0)

\* home, models not loaded: the dummy analysis of every article
DummyAnalysis(articles) ==
    [i \in 1..Len(articles) |->
        WithAnalysis(articles[i], [error |-> <<"ML models not loaded.">>])]

\* HomeErrorMsg without the overwrite of the model error by the fetch error
HomeErrorMsgKeepsModelError(loaded, result) ==
    IF ~loaded
    THEN PyStr(<<"ML Models failed to load. Analysis functionality may be limited.">>)
    ELSE IF IsError(result) THEN PyStr(result.error)
    ELSE PyNone

\* home: error_msg
HomeErrorMsg(loaded, result) ==
    IF IsError(result) THEN PyStr(result.error)
    ELSE IF ~loaded
    THEN PyStr(<<"ML Models failed to load. Analysis functionality may be limited.">>)
    ELSE PyNone

\* home: what is rendered, given the fetch result
HomeRender(loaded, current_page, result, mls) ==
    [template         |-> "index",
     initial_articles |-> IF IsError(result) THEN <<>>
                          ELSE IF ~loaded THEN DummyAnalysis(result.articles)
                          ELSE AnalyzeArticles(result.articles, loaded, mls,
                                               <<"No content for analysis.">>),
     initial_error    |-> HomeErrorMsg(loaded, result),
     search_error     |-> Undefined,
     topic            |-> Undefined,
     articles         |-> <<>>,
     error            |-> Undefined,
     current_page     |-> current_page,
     next_page        |-> current_page + 1]

\* home: the analyze_content calls made
HomeAnalyzeCalls(loaded, result) ==
    IF IsError(result) \/ ~loaded THEN <<>> ELSE AnalyzedTexts(result.articles)

\* analyze_news_route: the two early returns, before any fetch
AnalyzeRejects(loaded, topic) == ~loaded \/ ~Truthy(topic)

AnalyzeRejectRender(loaded) ==
    [template         |-> "index",
     initial_articles |-> <<>>,
     initial_error    |-> Undefined,
     search_error     |-> IF ~loaded
                          THEN PyStr(<<"ML Models are not available. Check server logs.">>)
                          ELSE PyStr(<<"Please enter a news topic or ticker.">>),
     topic            |-> Undefined,
     articles         |-> <<>>,
     error            |-> Undefined,
     current_page     |-> 1,
     next_page        |-> 2]

\* analyze_news_route: what is rendered, given the fetch result
AnalyzeRender(loaded, topic, current_page, result, mls) ==
    [template         |-> "results",
     initial_articles |-> <<>>,
     initial_error    |-> Undefined,
     search_error     |-> Undefined,
     topic            |-> topic,
     articles         |-> IF IsError(result) THEN <<>>
                          ELSE AnalyzeArticles(result.articles, loaded, mls,
                              <<"No description/snippet available from MarketAux for analysis.">>),
     error            |-> IF IsError(result) THEN PyStr(result.error) ELSE Undefined,
     current_page     |-> current_page,
     next_page        |-> current_page + 1]

AnalyzeAnalyzeCalls(result) ==
    IF IsError(result) THEN <<>> ELSE AnalyzedTexts(result.articles)

\* both routes: what the analyze_content calls of the request returned
RouteAnalyzeReturns(loaded, result, mls) ==
    IF IsError(result) \/ ~loaded THEN <<>>
    ELSE AnalyzedCalls(result.articles, loaded, mls)

-----------------------------------------------------------------------------
(* The templates: what HTML_INDEX_TEMPLATE and HTML_RESULTS_TEMPLATE show   *)
(* of an article's analysis.                                               *)

\* {% if x %}: an undefined variable, None and '' are false
JinjaTrue(v) == v.t = "str" /\ Len(v.s) > 0

\* article.analysis.get('error') is truthy
AnalysisHasError(analysis) ==
    "error" \in DOMAIN analysis /\ Len(analysis.error) > 0

\* ResultsEffect with the else branch showing the negative span
ResultsEffectElseNegative(sentiment) ==
    IF sentiment = <<"POSITIVE">> THEN "effect-positive" ELSE "effect-negative"

\* HTML_INDEX_TEMPLATE: the span shown for a sentiment
IndexEffect(sentiment) ==
    IF sentiment = <<"POSITIVE">> THEN "effect-positive"
    ELSE IF sentiment = <<"NEGATIVE">> THEN "effect-negative"
    ELSE "effect-neutral"

\* HTML_RESULTS_TEMPLATE: the span shown for a sentiment
ResultsEffect(sentiment) ==
    IF sentiment = <<"POSITIVE">> THEN "effect-positive"
    ELSE IF sentiment = <<"NEGATIVE">> THEN "effect-negative"
    ELSE "effect-neutral"

\* HTML_INDEX_TEMPLATE: the analysis block of one article
IndexArticleView(article) ==
    IF ~AnalysisHasError(article.analysis)
    THEN [block  |-> "analysis",
          text   |-> article.analysis.summary,
          effect |-> IndexEffect(article.analysis.sentiment)]
    ELSE [block |-> "error", text |-> article.analysis.error, effect |-> "none"]

\* HTML_RESULTS_TEMPLATE: the analysis block of one article
ResultsArticleView(article) ==
    IF ~AnalysisHasError(article.analysis)
    THEN [block  |-> "analysis",
          text   |-> article.analysis.summary,
          effect |-> ResultsEffect(article.analysis.sentiment)]
    ELSE [block |-> "error", text |-> article.analysis.error, effect |-> "none"]

\* the analysis blocks the rendered page shows, in page order: the index
\* page lists articles only without initial_error, the results page only
\* without error
Rendered(o) ==
    IF o.template = "index"
    THEN (IF JinjaTrue(o.initial_error) THEN <<>>
          ELSE [i \in 1..Len(o.initial_articles) |->
                    IndexArticleView(o.initial_articles[i])])
    ELSE IF o.template = "results"
    THEN (IF JinjaTrue(o.error) THEN <<>>
          ELSE [i \in 1..Len(o.articles) |-> ResultsArticleView(o.articles[i])])
    ELSE <<>>

-----------------------------------------------------------------------------
(* The inputs: what callers send and what the upstream and the pipelines   *)
(* answer.                                                                 *)

Seqs(S, n) == UNION {[1..k -> S] : k \in 0..n}

AbsentKey == [t |-> "absent"]       \* marks a key the raw record lacks

FieldKeys == {"description", "snippet", "title", "published_at"}

RawArticle(description, snippet, title, published_at) ==
    LET value(k) == CASE k = "description"  -> description
                      [] k = "snippet"      -> snippet
                      [] k = "title"        -> title
                      [] k = "published_at" -> published_at
                      [] k = "url"          -> PyStr(<<"https://example.com/a">>)
    IN  PyDict([k \in {"url"} \cup {f \in FieldKeys : value(f) # AbsentKey}
                    |-> value(k)])

ScalarsOr(text) ==
    {AbsentKey, PyNone, PyStr(<<>>), PyStr(text), PyInt(0), PyInt(5)}

PublishedValues ==
    {AbsentKey, PyNone, PyStr(<<>>), PyInt(0), PyInt(1704191445),
     PyStr(<<"2024-01-02">>),
     PyStr(<<"2024-01-02", "T", "10:30", ":45", "Z">>),
     PyStr(<<"2024-01-02", " ", "10:30", "+05:30">>),
     PyStr(<<"yesterday">>),
     PyStr(<<"2024-13-45", "T", "10:30", "Z">>)}

\* every combination of the four fields, for a data list of one record
AllRawArticles ==
    {RawArticle(d, s, t, p) :
        d \in ScalarsOr(<<"Rates up by a quarter point">>),
        s \in ScalarsOr(<<"Fed raises rates">>),
        t \in ScalarsOr(<<"Fed decision">>),
        p \in PublishedValues}

\* the records of longer data lists
SampleRecords ==
    {RawArticle(AbsentKey, AbsentKey, PyInt(0), AbsentKey),
     RawArticle(PyInt(0), AbsentKey, AbsentKey, AbsentKey),
     RawArticle(PyNone, PyStr(<<"Fed raises rates">>), AbsentKey, PyNone),
     RawArticle(AbsentKey, AbsentKey, PyStr(<<"Fed decision">>),
                PyStr(<<"yesterday">>)),
     RawArticle(AbsentKey, AbsentKey, PyStr(<<"Fed decision">>),
                PyInt(1704191445)),
     RawArticle(PyStr(<<"Rates up by a quarter point">>), AbsentKey, AbsentKey,
                PyStr(<<"2024-01-02", "T", "10:30", ":45", "Z">>)),
     PyStr(<<"not a record">>)}

\* the records of the lists the two routes are driven with
FeedRecords ==
    {RawArticle(AbsentKey, PyStr(<<>>), AbsentKey, AbsentKey),
     RawArticle(PyNone, PyStr(<<"Fed raises rates">>), PyStr(<<"Fed decision">>),
                PyStr(<<"2024-01-02", "T", "10:30", ":45", "Z">>)),
     RawArticle(AbsentKey, AbsentKey, PyStr(<<"Stocks rally">>), AbsentKey)}

DataBody(items) == [text |-> <<"<json>">>, json |-> PyDict([data |-> PyList(items)])]

\* a body that parses to a dict; its text is abbreviated where no path of
\* the code reads it
DictBody(f) == [text |-> <<"<json>">>, json |-> PyDict(f)]

TextBody(n) == [text |-> [i \in 1..n |-> "x"], json |-> NotJson]

BodyLengths == {0, 3, 200, 201}

RateLimitError ==
    PyDict([code |-> PyStr(<<"rate_limit">>), message |-> PyStr(<<"Too many requests">>)])

\* bodies without a usable data list
OtherBodies ==
    {TextBody(n) : n \in BodyLengths}
    \cup {[text |-> <<"[", "]">>, json |-> PyList(<<>>)],
          [text |-> <<"n", "u", "l", "l">>, json |-> PyNone],
          [text |-> <<"{", "\"", "e", "r", "r", "o", "r", "\"", ":",
                      "\"", "x", "\"", "}">>,
           json |-> PyDict([error |-> PyStr(<<"x">>)])],
          DictBody([error |-> RateLimitError]),
          DictBody([error |-> PyDict([message |-> PyStr(<<"Too many requests">>)])]),
          DictBody([error |-> PyDict([code |-> PyStr(<<"rate_limit">>)])]),
          DictBody([data |-> PyNone]),
          DictBody([data |-> PyNone, error |-> RateLimitError]),
          [text |-> <<"{", "\"", "m", "e", "t", "a", "\"", ":",
                      "n", "u", "l", "l", "}">>,
           json |-> PyDict([meta |-> PyNone])]}

Response(status, body, flag) ==
    [kind |-> "response", status |-> status, body |-> body,
     json_error_is_request_exception |-> flag]

TransportFailure(kind) ==
    [kind |-> kind, status |-> 0, body |-> TextBody(0),
     json_error_is_request_exception |-> FALSE]

NoNet == TransportFailure("none")   \* requests.get was not called

\* Whether response.json()'s JSONDecodeError is a RequestException depends
\* on the installed requests version: both are possible.
JsonFlags(status, body) ==
    IF status < 400 /\ body.json = NotJson THEN BOOLEAN ELSE {FALSE}

\* transport outcomes that carry no data list
PlainNets ==
    {TransportFailure("ConnectionError"), TransportFailure("Timeout")}
    \cup UNION {{Response(status, body, flag) : flag \in JsonFlags(status, body)} :
                    status \in {200, 429, 500}, body \in OtherBodies}

DataNets(lists) ==
    {Response(200, DataBody(items), FALSE) : items \in lists}
    \cup {Response(429, DataBody(<<>>), FALSE)}

\* what a direct call of fetch_marketaux_news can meet
FetchNets ==
    PlainNets
    \cup DataNets({<<r>> : r \in AllRawArticles} \cup Seqs(SampleRecords, MaxRecords))

\* what a request to a route can meet
RouteNets ==
    PlainNets
    \cup DataNets(Seqs(FeedRecords, MaxRecords)
                  \cup {<<r>> : r \in SampleRecords})

MLBehaviours ==
    {[summary_raises |-> a, sentiment_raises |-> FALSE, label |-> l] :
        a \in BOOLEAN, l \in {"POSITIVE", "NEGATIVE", "NEUTRAL"}}
    \cup {[summary_raises |-> a, sentiment_raises |-> TRUE, label |-> "POSITIVE"] :
        a \in BOOLEAN}

\* the pipelines on a direct call of analyze_content: also labels of
\* another backend
DirectMLBehaviours ==
    MLBehaviours
    \cup {[summary_raises |-> a, sentiment_raises |-> FALSE, label |-> l] :
            a \in BOOLEAN, l \in {"positive", "LABEL_1"}}

\* the texts of a direct call of analyze_content: empty, short, and longer
\* than both truncations
DirectTexts ==
    {<<>>, <<"Fed raises rates">>, [i \in 1..513 |-> "a"]}

PageArgs == {AbsentArg, TextArg} \cup {IntArg(n) : n \in -1..MaxPage}

Topics == {PyNone, PyStr(<<>>), PyStr(<<" ", "AAPL", " ">>)}

Keys == {PyNone, PyStr(<<>>), PyStr(<<"<api-token>">>)}

-----------------------------------------------------------------------------
(* State *)

NotCalled == [not_called |-> TRUE]  \* fetch_marketaux_news was not called

NoOutput ==
    [template |-> "none", initial_articles |-> <<>>, initial_error |-> Undefined,
     search_error |-> Undefined, topic |-> Undefined, articles |-> <<>>,
     error |-> Undefined, current_page |-> 0, next_page |-> 0]

Request(route, page_arg, topic, query, page, limit) ==
    [route |-> route, page_arg |-> page_arg, topic |-> topic,
     query |-> query, page |-> page, articles_per_page |-> limit]

Init ==
    /\ MARKETAUX_API_KEY \in Keys
    /\ models_loaded \in BOOLEAN
    /\ req = Request("none", AbsentArg, PyNone, <<>>, 0, 0)
    /\ net = NoNet
    /\ transport_calls = <<>>
    /\ news_result = NotCalled
    /\ analyze_calls = <<>>
    /\ analyze_returns = <<>>
    /\ out = NoOutput

\* what the upstream did is observed only if requests.get was reached
Observed(fetched, n) == IF fetched.gets = <<>> THEN NoNet ELSE n

\* a direct call of fetch_marketaux_news(query, page, articles_per_page)
CallFetch(query, page, limit, n) ==
    LET fetched == fetch_marketaux_news(query, page, limit, MARKETAUX_API_KEY, n)
    IN  /\ req' = Request("fetch", AbsentArg, PyNone, query, page, limit)
        /\ net' = Observed(fetched, n)
        /\ transport_calls' = fetched.gets
        /\ news_result' = fetched.ret
        /\ analyze_calls' = <<>>
        /\ analyze_returns' = <<>>
        /\ out' = NoOutput
        /\ UNCHANGED <<MARKETAUX_API_KEY, models_loaded>>

\* a direct call of analyze_content(text)
CallAnalyzeContent(text, ml) ==
    /\ req' = Request("analyze_content", AbsentArg, PyNone, <<>>, 0, 0)
    /\ net' = NoNet
    /\ transport_calls' = <<>>
    /\ news_result' = NotCalled
    /\ analyze_calls' = <<text>>
    /\ analyze_returns' =
          <<[text |-> text, ml |-> ml, ret |-> analyze_content(text, models_loaded, ml)]>>
    /\ out' = NoOutput
    /\ UNCHANGED <<MARKETAUX_API_KEY, models_loaded>>

\* GET /
home(page_arg, n, mls) ==
    LET current_page == HomePage(page_arg)
        fetched == fetch_marketaux_news(HomeQuery, current_page, 5,
                                        MARKETAUX_API_KEY, n)
    IN  /\ req' = Request("home", page_arg, PyNone, HomeQuery, current_page, 5)
        /\ net' = Observed(fetched, n)
        /\ transport_calls' = fetched.gets
        /\ news_result' = fetched.ret
        /\ analyze_calls' = HomeAnalyzeCalls(models_loaded, fetched.ret)
        /\ analyze_returns' = RouteAnalyzeReturns(models_loaded, fetched.ret, mls)
        /\ out' = HomeRender(models_loaded, current_page, fetched.ret, mls)
        /\ UNCHANGED <<MARKETAUX_API_KEY, models_loaded>>

\* POST /analyze
analyze_news_route(topic, page_arg, n, mls) ==
    IF AnalyzeRejects(models_loaded, topic)
    THEN /\ req' = Request("analyze", page_arg, topic, <<>>, 0, 0)
         /\ net' = NoNet
         /\ transport_calls' = <<>>
         /\ news_result' = NotCalled
         /\ analyze_calls' = <<>>
         /\ analyze_returns' = <<>>
         /\ out' = AnalyzeRejectRender(models_loaded)
         /\ UNCHANGED <<MARKETAUX_API_KEY, models_loaded>>
    ELSE LET current_page == AnalyzePage(page_arg)
             fetched == fetch_marketaux_news(topic.s, current_page, 10,
                                             MARKETAUX_API_KEY, n)
         IN  /\ req' = Request("analyze", page_arg, topic, topic.s, current_page, 10)
             /\ net' = Observed(fetched, n)
             /\ transport_calls' = fetched.gets
             /\ news_result' = fetched.ret
             /\ analyze_calls' = AnalyzeAnalyzeCalls(fetched.ret)
             /\ analyze_returns' = RouteAnalyzeReturns(models_loaded, fetched.ret, mls)
             /\ out' = AnalyzeRender(models_loaded, topic, current_page,
                                     fetched.ret, mls)
             /\ UNCHANGED <<MARKETAUX_API_KEY, models_loaded>>

\* the behaviours of the pipelines on the calls of one request: one per
\* article of the data list the upstream sent (none if it sent none)
CallBehaviours(n) ==
    IF n.body.json.t = "dict" /\ "data" \in DOMAIN n.body.json.f
       /\ n.body.json.f.data.t = "list"
    THEN [1..Len(n.body.json.f.data.items) -> MLBehaviours]
    ELSE {<<>>}

\* One call is served at a time, start to finish (the handlers are
\* synchronous); its locals and its rendered output do not outlive it.
Idle == req.route = "none"

\* the call returns: nothing of it is kept
Return ==
    /\ ~Idle
    /\ req' = Request("none", AbsentArg, PyNone, <<>>, 0, 0)
    /\ net' = NoNet
    /\ transport_calls' = <<>>
    /\ news_result' = NotCalled
    /\ analyze_calls' = <<>>
    /\ analyze_returns' = <<>>
    /\ out' = NoOutput
    /\ UNCHANGED <<MARKETAUX_API_KEY, models_loaded>>

Next ==
    \/ /\ Idle
       /\ \E query \in {<<" ", "AAPL", " ">>}, page \in 1..MaxPage,
             limit \in {5, 10}, n \in FetchNets :
               CallFetch(query, page, limit, n)
    \/ /\ Idle
       /\ \E page_arg \in PageArgs, n \in RouteNets : \E mls \in CallBehaviours(n) :
               home(page_arg, n, mls)
    \/ /\ Idle
       /\ \E topic \in Topics, page_arg \in PageArgs, n \in RouteNets :
             \E mls \in CallBehaviours(n) :
               analyze_news_route(topic, page_arg, n, mls)
    \/ /\ Idle
       /\ \E text \in DirectTexts, ml \in DirectMLBehaviours :
               CallAnalyzeContent(text, ml)
    \/ Return

Spec == Init /\ [][Next]_vars

-----------------------------------------------------------------------------
(* Vocabulary of the properties *)

RouteServed == req.route \in {"home", "analyze"}

FetchCalled == "not_called" \notin DOMAIN news_result

FetchSucceeded == FetchCalled /\ ~IsError(news_result)

FetchFailed == FetchCalled /\ IsError(news_result)

\* the article list handed to the template
Items(o) == IF o.template = "results" THEN o.articles ELSE o.initial_articles

\* the page-level error messages handed to the template
PageErrors(o) ==
    {e.s : e \in {x \in {o.initial_error, o.search_error, o.error} : x.t = "str"}}

\* sub occurs in s
ContainsStr(s, sub) ==
    \E i \in 1..(Len(s) - Len(sub) + 1) : SubSeq(s, i, i + Len(sub) - 1) = sub

\* the raw records of the data list the upstream sent
RawItems == net.body.json.f.data.items

-----------------------------------------------------------------------------
(* C1 *)

\* C1: in both routes, an article of a successful fetch whose
\* content_for_analysis is empty gets an {error: ...} analysis, and the
\* number of analyze_content calls of the request equals the number of
\* articles with non-empty content_for_analysis.
C1_EmptyTextNeverAnalyzed ==
    (RouteServed /\ FetchSucceeded) =>
        /\ \A i \in 1..Len(Items(out)) :
              Len(Items(out)[i].content_for_analysis) = 0
                  => "error" \in DOMAIN Items(out)[i].analysis
        /\ Len(analyze_calls) =
              Cardinality({i \in 1..Len(news_result.articles) :
                              Len(news_result.articles[i].content_for_analysis) > 0})

-----------------------------------------------------------------------------
(* C2 *)

\* C2: with the models not loaded, a page request of either route (with a
\* credential, and a topic for the search) still performs the fetch and,
\* when it succeeds, returns its articles with no page-level error, each
\* carrying the failure "ML models not available.".
C2_DegradedModeStillServes ==
    (RouteServed /\ ~models_loaded /\ Truthy(MARKETAUX_API_KEY)
        /\ (req.route = "analyze" => Truthy(req.topic))) =>
        /\ FetchCalled
        /\ ~IsError(news_result) =>
              /\ PageErrors(out) = {}
              /\ Len(Items(out)) = Len(news_result.articles)
              /\ \A i \in 1..Len(Items(out)) :
                    Items(out)[i].analysis = [error |-> <<"ML models not available.">>]

-----------------------------------------------------------------------------
(* C3 *)

\* C3: when fetch_marketaux_news returns an error, the route hands the
\* presentation layer exactly that message as its page error, no articles,
\* and makes no analyze_content call, models loaded or not.
C3_FetchErrorPropagates ==
    (RouteServed /\ FetchFailed) =>
        /\ PageErrors(out) = {news_result.error}
        /\ (req.route = "home" => out.initial_error = PyStr(news_result.error))
        /\ (req.route = "analyze" => out.error = PyStr(news_result.error))
        /\ Items(out) = <<>>
        /\ analyze_calls = <<>>

\* an upstream failure reached the home feed while the models were down
C3_Witness ==
    /\ req.route = "home"
    /\ ~models_loaded
    /\ FetchFailed
    /\ transport_calls # <<>>
    /\ net.kind = "response"
    /\ net.status = 429

-----------------------------------------------------------------------------
(* C4 *)

\* C4: with the credential unset or empty, fetch_marketaux_news returns the
\* configuration error and requests.get is not reached, whatever the query,
\* page and page size.
C4_NoRequestWithoutCredential ==
    (FetchCalled /\ ~Truthy(MARKETAUX_API_KEY)) =>
        /\ IsError(news_result)
        /\ news_result.error =
              <<"Server configuration error: Missing MarketAux API Key.">>
        /\ transport_calls = <<>>
        /\ net = NoNet

\* a direct call with an empty credential, for the last page
C4_Witness ==
    /\ req.route = "fetch"
    /\ MARKETAUX_API_KEY = PyStr(<<>>)
    /\ req.page = MaxPage
    /\ req.articles_per_page = 10
    /\ FetchFailed

-----------------------------------------------------------------------------
(* C5 *)

\* the page a caller's argument stands for: the integer, or 1 when it is
\* missing, not an integer, or below 1
ExpectedPage(page_arg) ==
    IF page_arg.k = "int" /\ page_arg.n >= 1 THEN page_arg.n ELSE 1

\* C5 as stated: for every page request, the fetch uses the clamped page
\* and next_page is the clamped page + 1.
C5_AsStated ==
    RouteServed =>
        /\ FetchCalled => req.page = ExpectedPage(req.page_arg)
        /\ out.next_page = ExpectedPage(req.page_arg) + 1

\* C5 amended: on every page request that calls fetch_marketaux_news the
\* fetch uses the clamped page (an integer >= 1), and current_page and
\* next_page are that page and that page + 1, whatever the fetch returned;
\* a topic search that returns before fetching hands over 1 and 2.
C5_NextPage ==
    RouteServed =>
        /\ FetchCalled =>
              /\ req.page = ExpectedPage(req.page_arg)
              /\ req.page >= 1
              /\ transport_calls # <<>> => transport_calls[1].page = req.page
              /\ out.current_page = req.page
              /\ out.next_page = req.page + 1
        /\ ~FetchCalled =>
              /\ req.route = "analyze"
              /\ out.current_page = 1
              /\ out.next_page = 2

\* a topic search for page 0: the fetch, which failed upstream, used page 1
C5_Witness ==
    /\ req.route = "analyze"
    /\ req.page_arg = IntArg(0)
    /\ FetchFailed
    /\ out.next_page = 2
    /\ transport_calls # <<>>

-----------------------------------------------------------------------------
(* C6 *)

\* C6: a 2xx response with an empty data list for page 1 gives an empty
\* items list, no page-level error and next_page = 2.
C6_EmptyResultIsNotAnError ==
    (RouteServed /\ net.kind = "response" /\ net.status = 200
        /\ net.body = DataBody(<<>>) /\ req.page = 1) =>
        /\ Items(out) = <<>>
        /\ PageErrors(out) = {}
        /\ out.next_page = 2

-----------------------------------------------------------------------------
(* C7 *)

\* the response is an HTTP error whose body is {"error": {"code", "message"}}
StructuredHttpError ==
    /\ net.kind = "response"
    /\ net.status >= 400
    /\ net.body.json.t = "dict"
    /\ "error" \in DOMAIN net.body.json.f
    /\ net.body.json.f.error.t = "dict"
    /\ {"code", "message"} \subseteq DOMAIN net.body.json.f.error.f

\* C7: on a non-2xx response with a structured error body, the returned
\* error message contains both the code and the message of the body.
C7_StructuredErrorHasCodeAndMessage ==
    (FetchCalled /\ StructuredHttpError) =>
        /\ IsError(news_result)
        /\ ContainsStr(news_result.error, net.body.json.f.error.f.message.s)
        /\ ContainsStr(news_result.error, net.body.json.f.error.f.code.s)

-----------------------------------------------------------------------------
(* C8 *)

\* C8: no error string fetch_marketaux_news returns, and none a route hands
\* to the presentation layer, contains the credential.
C8_ErrorsNeverContainCredential ==
    Truthy(MARKETAUX_API_KEY) =>
        /\ FetchFailed => ~ContainsStr(news_result.error, MARKETAUX_API_KEY.s)
        /\ \A e \in PageErrors(out) : ~ContainsStr(e, MARKETAUX_API_KEY.s)

-----------------------------------------------------------------------------
(* C9 *)

\* The values whose being "usable" the wording leaves open; None and a
\* missing key are not usable, a non-empty str and a non-zero number are.
DoubtfulValues == {PyStr(<<>>), PyInt(0)}

UsableUnder(usable, v) == v \in usable \/ (v.t \in {"str", "int"} /\ Truthy(v))

\* the first usable of description, snippet, title as a str, else ''
ClaimedText(usable, raw) ==
    LET d == DictGet(raw, "description", AbsentKey)
        s == DictGet(raw, "snippet", AbsentKey)
        t == DictGet(raw, "title", AbsentKey)
    IN  IF UsableUnder(usable, d) THEN StrOf(d)
        ELSE IF UsableUnder(usable, s) THEN StrOf(s)
        ELSE IF UsableUnder(usable, t) THEN StrOf(t)
        ELSE <<>>

\* C9: content_for_analysis is the first usable value of description,
\* snippet, title, coerced to a str, and '' when none is usable, for one
\* and the same notion of "usable" on every record.
C9_AnalyzableText ==
    (FetchSucceeded /\ transport_calls # <<>>) =>
        \E usable \in SUBSET DoubtfulValues :
            \A i \in 1..Len(news_result.articles) :
                news_result.articles[i].content_for_analysis
                    = ClaimedText(usable, RawItems[i])

-----------------------------------------------------------------------------
(* C10 *)

PublishedAt(raw) == DictGet(raw, "published_at", AbsentKey)

IsDateTimeOf(display, s) ==
    /\ Len(display) = 3
    /\ display[1] = s[1]
    /\ display[2] = " "
    /\ display[3] = (IF Len(s) >= 3 THEN s[3] ELSE "00:00")

\* C10 as stated: "N/A" when published_at is missing (no key, or null), the
\* raw string when it is a string that does not parse, else the formatted
\* timestamp.
C10_AsStated ==
    (FetchSucceeded /\ transport_calls # <<>>) =>
        \A i \in 1..Len(news_result.articles) :
            LET p == PublishedAt(RawItems[i])
                display == news_result.articles[i].published_utc
            IN  IF p \in {AbsentKey, PyNone} THEN display = <<"N/A">>
                ELSE IF p.t = "str" /\ ~IsoParses(ReplaceZ(p.s)) THEN display = p.s
                ELSE p.t = "str" /\ IsDateTimeOf(display, p.s)

\* C10 amended: "N/A" when published_at is missing, null, or otherwise
\* falsy ('' or 0); the raw string, unchanged, when it is a non-empty
\* string that does not parse; else the timestamp as 'date hh:mm'.
C10_PublishedDisplay ==
    (FetchSucceeded /\ transport_calls # <<>>) =>
        \A i \in 1..Len(news_result.articles) :
            LET p == PublishedAt(RawItems[i])
                display == news_result.articles[i].published_utc
            IN  IF p \in {AbsentKey, PyNone, PyStr(<<>>), PyInt(0)}
                THEN display = <<"N/A">>
                ELSE /\ p.t = "str"
                     /\ IF IsoParses(ReplaceZ(p.s))
                        THEN IsDateTimeOf(display, p.s)
                        ELSE display = p.s

\* a record whose unparsable date holds a 'Z' is displayed with it, next to
\* a record whose date parsed
C10_Witness ==
    /\ FetchSucceeded
    /\ transport_calls # <<>>
    /\ \E i \in 1..Len(news_result.articles) :
          /\ PublishedAt(RawItems[i]) = PyStr(<<"2024-13-45", "T", "10:30", "Z">>)
          /\ news_result.articles[i].published_utc
                = <<"2024-13-45", "T", "10:30", "Z">>

-----------------------------------------------------------------------------
(* C11 *)

\* the span the specification assigns to a sentiment label
ExpectedEffect(sentiment) ==
    CASE sentiment = <<"POSITIVE">> -> "effect-positive"
      [] sentiment = <<"NEGATIVE">> -> "effect-negative"
      [] OTHER                      -> "effect-neutral"

\* C11: every analysis block a page shows has the positive span exactly for
\* the label "POSITIVE", the negative span exactly for "NEGATIVE" and the
\* neutral span for every other label; and for every sentiment
\* analyze_content returns ("N/A" and "Error analyzing sentiment."
\* included) the index template and the results template both show that
\* span.
C11_SentimentDisplay ==
    /\ \A i \in 1..Len(Rendered(out)) :
          LET analysis == Items(out)[i].analysis
          IN  ~AnalysisHasError(analysis)
              => /\ Rendered(out)[i].block = "analysis"
                 /\ Rendered(out)[i].effect = ExpectedEffect(analysis.sentiment)
    /\ \A i \in 1..Len(analyze_returns) :
          LET ret == analyze_returns[i].ret
          IN  "sentiment" \in DOMAIN ret
              => /\ IndexEffect(ret.sentiment) = ExpectedEffect(ret.sentiment)
                 /\ ResultsEffect(ret.sentiment) = ExpectedEffect(ret.sentiment)

\* a results page shows an article whose sentiment stage failed, with the
\* neutral span
C11_Witness ==
    /\ out.template = "results"
    /\ \E i \in 1..Len(Rendered(out)) :
          /\ ~AnalysisHasError(Items(out)[i].analysis)
          /\ Items(out)[i].analysis.sentiment = <<"Error analyzing sentiment.">>
          /\ Rendered(out)[i].effect = "effect-neutral"

-----------------------------------------------------------------------------
(* C12 *)

\* C12: every analyze_content call with the models loaded and a non-empty
\* text returns a dict with exactly summary and sentiment; summary is
\* "Error generating summary." if the summarization stage raised and the
\* summarizer's result otherwise, whatever the sentiment stage did;
\* sentiment is "Error analyzing sentiment." if the sentiment stage raised
\* and the pipeline's label otherwise, whatever the summarization stage did.
C12_StagesFailIndependently ==
    \A i \in 1..Len(analyze_returns) :
        LET call == analyze_returns[i]
        IN  (models_loaded /\ Len(call.text) > 0)
            => /\ DOMAIN call.ret = {"summary", "sentiment"}
               /\ call.ret.summary =
                     IF call.ml.summary_raises
                     THEN <<"Error generating summary.">>
                     ELSE Summarizer(call.text)
               /\ call.ret.sentiment =
                     IF call.ml.sentiment_raises
                     THEN <<"Error analyzing sentiment.">>
                     ELSE <<call.ml.label>>

\* a direct call in which summarization raised and the sentiment stage
\* returned its label
C12_Witness ==
    /\ req.route = "analyze_content"
    /\ models_loaded
    /\ Len(analyze_returns) = 1
    /\ Len(analyze_returns[1].text) > 0
    /\ analyze_returns[1].ml.summary_raises
    /\ ~analyze_returns[1].ml.sentiment_raises
    /\ analyze_returns[1].ret.summary = <<"Error generating summary.">>
    /\ analyze_returns[1].ret.sentiment = <<analyze_returns[1].ml.label>>

-----------------------------------------------------------------------------
(* C13 *)

\* the response passed raise_for_status and its body is {"data": [...]}
DataListResponse ==
    /\ net.kind = "response"
    /\ net.status < 400
    /\ net.body.json.t = "dict"
    /\ "data" \in DOMAIN net.body.json.f
    /\ net.body.json.f.data.t = "list"

\* published_at is missing, or a string that parses
WellFormedDate(raw) ==
    \/ PublishedAt(raw) \in {AbsentKey, PyNone}
    \/ PublishedAt(raw).t = "str" /\ IsoParses(ReplaceZ(PublishedAt(raw).s))

\* C13: on a 2xx response whose data is a list of records, whatever the
\* shape of a record's published_at, the fetch returns the full article
\* list: one article per record, a record with a well-formed published_at
\* normalized as ever, a record with a malformed one differing only in its
\* published display.
C13_MalformedDateIsIsolated ==
    (FetchCalled /\ transport_calls # <<>> /\ DataListResponse
        /\ \A i \in 1..Len(RawItems) : RawItems[i].t = "dict") =>
        /\ FetchSucceeded
        /\ Len(news_result.articles) = Len(RawItems)
        /\ \A i \in 1..Len(RawItems) :
              LET article  == news_result.articles[i]
                  expected == ProcessedArticle(RawItems[i])
              IN  /\ article.title = expected.title
                  /\ article.link = expected.link
                  /\ article.source = expected.source
                  /\ article.content_for_analysis = expected.content_for_analysis
                  /\ WellFormedDate(RawItems[i])
                        => article.published_utc = expected.published_utc

-----------------------------------------------------------------------------
(* C14 *)

\* the number of analyze_content calls the loop has made once it is done
\* with item i
CallRank(i) ==
    Cardinality({j \in 1..i : Len(Items(out)[j].content_for_analysis) > 0})

\* item i carries the analysis outcome of its own text
OwnAnalysis(i) ==
    LET item == Items(out)[i]
    IN  IF ~models_loaded
        THEN item.analysis = [error |-> <<"ML models not loaded.">>]
        ELSE IF Len(item.content_for_analysis) = 0
        THEN AnalysisHasError(item.analysis)
        ELSE /\ CallRank(i) <= Len(analyze_returns)
             /\ analyze_calls[CallRank(i)] = item.content_for_analysis
             /\ analyze_returns[CallRank(i)].text = item.content_for_analysis
             /\ item.analysis = analyze_returns[CallRank(i)].ret
             /\ item.analysis.summary
                   \in {Summarizer(item.content_for_analysis),
                        <<"Error generating summary.">>}

\* C14: after a successful fetch the articles returned are, one for one and
\* in order, the normalized records of the upstream data list; the items a
\* route hands to the template are those articles, in the same number and
\* order, each with the analysis outcome of its own text; and
\* analyze_content was called once per item with a non-empty text, in item
\* order.
C14_ItemsFollowUpstream ==
    FetchSucceeded =>
        /\ Len(news_result.articles) = Len(RawItems)
        /\ \A i \in 1..Len(RawItems) :
              news_result.articles[i] = ProcessedArticle(RawItems[i])
        /\ RouteServed =>
              /\ Len(Items(out)) = Len(RawItems)
              /\ Len(analyze_calls) = Len(analyze_returns)
              /\ models_loaded => Len(analyze_returns) = CallRank(Len(Items(out)))
              /\ \A i \in 1..Len(RawItems) :
                    /\ WithAnalysis(Items(out)[i], <<>>)
                          = WithAnalysis(ProcessedArticle(RawItems[i]), <<>>)
                    /\ OwnAnalysis(i)

\* a page of two different records, both analyzed: each item carries the
\* summary of its own text
C14_Witness ==
    /\ RouteServed
    /\ FetchSucceeded
    /\ models_loaded
    /\ Len(Items(out)) = 2
    /\ Len(analyze_returns) = 2
    /\ Items(out)[1].content_for_analysis # Items(out)[2].content_for_analysis
    /\ \A i \in 1..2 :
          /\ Items(out)[i].title = ProcessedArticle(RawItems[i]).title
          /\ Items(out)[i].analysis.summary
                = Summarizer(Items(out)[i].content_for_analysis)

-----------------------------------------------------------------------------
(* C15 *)

\* the response passed raise_for_status and its body parsed as JSON, but
\* not to an object with a data list
NoDataListResponse ==
    /\ net.kind = "response"
    /\ net.status < 400
    /\ net.body.json # NotJson
    /\ ~DataListResponse

\* C15: on a 2xx response whose JSON body has no data list (no data, data
\* that is not a list, or a body that is not an object), whatever else the
\* body holds, the fetch returns the "unexpected response format" error.
C15_NoDataListIsUnexpectedFormat ==
    (FetchCalled /\ transport_calls # <<>> /\ NoDataListResponse) =>
        /\ IsError(news_result)
        /\ news_result.error
              = <<"Unexpected response format received from MarketAux.">>

-----------------------------------------------------------------------------
(* C16 *)

\* the response is an HTTP error whose body is no structured error: not
\* JSON, JSON without an error object, or an error value that is no object
UnstructuredHttpError ==
    /\ net.kind = "response"
    /\ net.status >= 400
    /\ \/ net.body.json.t # "dict"
       \/ "error" \notin DOMAIN net.body.json.f
       \/ net.body.json.f.error.t # "dict"

\* C16: on a non-2xx response without a structured error body, the returned
\* error message holds the HTTP status and the first 200 characters of the
\* body, and no more of the body than that.
C16_UnstructuredErrorHasStatusAndBody ==
    (FetchCalled /\ transport_calls # <<>> /\ UnstructuredHttpError) =>
        /\ IsError(news_result)
        /\ ContainsStr(news_result.error, IntStr(net.status))
        /\ ContainsStr(news_result.error, Prefix(net.body.text, 200))
        /\ Len(net.body.text) > 200
              => ~ContainsStr(news_result.error, Prefix(net.body.text, 201))

====
